---------------------------- MODULE Spec2Model ----------------------------
(***************************************************************************)
(* A model of src/src/utils/audio/chunk_stream.ts: the receive-side        *)
(* AudioChunkStreamOrderer, the wire framing AudioChunkStreamEncoder /     *)
(* AudioChunkStreamDecoder, the time-driven AudioChunkStream and the       *)
(* AudioChunkStreamResampler.  Every class is a group of variables; every  *)
(* method or event handler is one action that runs the handler to its end. *)
(***************************************************************************)
EXTENDS Integers, Sequences, FiniteSets, TLC

(***************************************************************************)
(* Bounds of the model.                                                    *)
(***************************************************************************)
\* largest chunk index written to the Orderer
MaxIdx == 4
\* number of Orderer.write calls explored
MaxWrites == 4
\* largest maxUnorderedChunks the Orderer is constructed with
MaxUnordered == 3
\* number of frames the Encoder frames
MaxSent == 2
\* number of records the transport hands to the Decoder
MaxDeliver == 3
\* the clock runs from StartTime to StartTime + MaxTime
MaxTime == 12
\* a timer tick fires at most MaxLate after it is due
MaxLate == 1
\* number of bytes the source produces
MaxFeed == 9
\* number of Resampler.write calls explored
MaxResWrites == 4
\* largest alignementBuffer, in output frames
MaxCapacityFrames == 4
\* largest chunk index written to the Resampler
MaxResIdx == 4

VARIABLES
    \* ---- AudioChunkStreamOrderer (chunk_stream.ts:151-219)
    maxUnorderedChunks,       \* constructor parameter
    buffer,                   \* AudioChunkStreamOutput[]
    nextEmittableChunkIndex,  \* -1 until the first write
    \* ---- history of the Orderer, read by the properties only
    ordOut,                   \* every frame passed to super.write, in order
    ordSeen,                  \* the set of frames written so far
    ordCount,                 \* number of write calls so far
    ordFirst,                 \* index of the first frame written, -1 if none
    ordFull,                  \* TRUE once a write took the overflow branch
    ordLast,                  \* what the last write did
    ordAge,                   \* per buffered frame: frames buffered after it
    \* ---- AudioChunkStreamEncoder / AudioChunkStreamDecoder (108-148)
    sent,                     \* frames the Encoder has framed so far
    encLast,                  \* the frame and the record of the last Encoder.write
    decCount,                 \* number of Decoder.write calls so far
    decLast,                  \* what the last Decoder.write did
    \* ---- AudioChunkStream (28-106), its source stream and the clock
    wallClock,                \* now() of ../misc
    srcFed,                   \* bytes the source has produced so far
    srcTaken,                 \* bytes taken from it by sourceStream.read
    srcEnded,                 \* the source stream has closed
    srcSignal,                \* a 'readable' event of the source is pending
    readInterval,             \* TRUE while the setInterval timer is set
    nextTick,                 \* earliest time of the timer's next tick
    lastEmittedChunkIndex,
    loopIterationWithoutData,
    chkEnded,                 \* TRUE once end() was called on the Minipass
    \* ---- history of the AudioChunkStream, read by the properties only
    chkOut,                   \* every chunk passed to this.write, in order
    chkTrack,                 \* starvation and read counts since the last chunk
    chkLast,                  \* what the last handler did
    \* ---- AudioChunkStreamResampler (221-299)
    soxrModule,               \* TRUE once the resampler is initialized
    alignementBuffer,         \* Uint8Array, indexed from 0
    bufferOffset,
    bufferSize,
    chunkIndexToEmit,
    \* ---- history of the Resampler, read by the properties only
    resNextIdx,               \* smallest index the next chunk may carry
    resAccepted,              \* indices pushed to chunkIndexToEmit, in order
    resLens,                  \* length of every resampler output, in order
    resOver,                  \* TRUE once bufferSize exceeded the buffer's length
    resOut                    \* every frame passed to super.write, in order

ordVars == <<maxUnorderedChunks, buffer, nextEmittableChunkIndex,
             ordOut, ordSeen, ordCount, ordFirst, ordFull, ordLast, ordAge>>

wireVars == <<sent, encLast, decCount, decLast>>

chkVars == <<wallClock, srcFed, srcTaken, srcEnded, srcSignal, readInterval,
             nextTick,
             lastEmittedChunkIndex, loopIterationWithoutData, chkEnded,
             chkOut, chkTrack, chkLast>>

resVars == <<soxrModule, alignementBuffer, bufferOffset, bufferSize,
             chunkIndexToEmit, resNextIdx, resAccepted, resLens, resOver,
             resOut>>

vars == <<ordVars, wireVars, chkVars, resVars>>

(***************************************************************************)
(* AudioChunkStreamOrderer                                                 *)
(***************************************************************************)

\* Buffer.alloc(0): the payload of the frame synthesised for concealment
EmptyChunk == <<>>

\* payloads of the frames the transport hands over: Opus packets, never empty
OrdPayloads == {<<1>>, <<2>>}

\* Array.prototype.sort((a, b) => a.i - b.i) applied after a push: the array
\* was sorted before the push and the sort is stable, so the pushed element
\* (the last one) moves in front of the elements with a larger index only.
SortBuffer_Unsorted(b) ==
    b

RECURSIVE SortBuffer(_)
SortBuffer(b) ==
    IF Len(b) <= 1 THEN b
    ELSE LET n    == Len(b)
             last == b[n]
             init == SortBuffer(SubSeq(b, 1, n - 1))
             k    == Cardinality({j \in 1..(n - 1) : init[j].i <= last.i})
         IN  SubSeq(init, 1, k) \o <<last>> \o SubSeq(init, k + 1, n - 1)

\* emitChunk: super.write(chunk); nextEmittableChunkIndex = chunk.i + 1
EmitChunk(s, c) ==
    [s EXCEPT !.emitted = Append(@, c),
              !.nextEmittableChunkIndex = c.i + 1]

\* emitNextChunksInBuffer: while the head is the next emittable chunk, emit it
RECURSIVE EmitNextChunksInBuffer(_)
EmitNextChunksInBuffer(s) ==
    IF Len(s.buffer) > 0 /\ s.buffer[1].i = s.nextEmittableChunkIndex
    THEN EmitNextChunksInBuffer(
             EmitChunk([s EXCEPT !.buffer = Tail(@)], s.buffer[1]))
    ELSE s

\* line 195: the gap is too big
GapTooBig_Late(s, max) ==
    Len(s.buffer) > 0 /\ Len(s.buffer) > max

GapTooBig(s, max) ==
    Len(s.buffer) > 0 /\ Len(s.buffer) >= max

\* line 197: exactly one chunk is missing in front of the buffer
OneMissing_AtLeast(s) ==
    s.buffer[1].i - s.nextEmittableChunkIndex >= 1

OneMissing(s) ==
    s.buffer[1].i - s.nextEmittableChunkIndex = 1

\* lines 194-211: give up waiting for the missing chunk(s)
ForceEmit_KeepNext(s) ==
    LET s1 == [s EXCEPT !.overflow = TRUE,
                        !.headAtOverflow = s.buffer[1].i,
                        !.nextAtOverflow = s.nextEmittableChunkIndex]
        s2 == IF OneMissing(s1)
              THEN EmitChunk(s1, [i |-> s1.nextEmittableChunkIndex,
                                  chunk |-> EmptyChunk])
              ELSE s1
    IN  EmitNextChunksInBuffer(s2)

ForceEmit(s) ==
    LET s1 == [s EXCEPT !.overflow = TRUE,
                        !.headAtOverflow = s.buffer[1].i,
                        !.nextAtOverflow = s.nextEmittableChunkIndex]
        s2 == IF OneMissing(s1)
              THEN EmitChunk(s1, [i |-> s1.nextEmittableChunkIndex,
                                  chunk |-> EmptyChunk])
              ELSE s1
        s3 == [s2 EXCEPT !.nextEmittableChunkIndex = s2.buffer[1].i]
    IN  EmitNextChunksInBuffer(s3)

\* AudioChunkStreamOrderer.write(d), lines 173-218, on the object state
\* [buffer, nextEmittableChunkIndex]; the other fields record what the call did
OrdererWrite(buf, next, max, d) ==
    LET s0 == [buffer |-> buf,
               nextEmittableChunkIndex |-> IF next = -1 THEN d.i ELSE next,
               emitted |-> <<>>, late |-> FALSE, pushedLen |-> Len(buf),
               overflow |-> FALSE, headAtOverflow |-> -1, nextAtOverflow |-> -1]
    IN  IF d.i < s0.nextEmittableChunkIndex
        THEN [s0 EXCEPT !.late = TRUE]
        ELSE LET s1 == IF s0.nextEmittableChunkIndex = d.i
                       THEN EmitChunk(s0, d)
                       ELSE [s0 EXCEPT !.buffer = Append(@, d),
                                       !.pushedLen = Len(buf) + 1]
                 s2 == [s1 EXCEPT !.buffer = SortBuffer(@)]
                 s3 == EmitNextChunksInBuffer(s2)
             IN  IF GapTooBig(s3, max) THEN ForceEmit(s3) ELSE s3

\* new AudioChunkStreamOrderer(max)
OrdNew(max) ==
    /\ maxUnorderedChunks = max
    /\ buffer = <<>>
    /\ nextEmittableChunkIndex = -1
    /\ ordOut = <<>>
    /\ ordSeen = {}
    /\ ordCount = 0
    /\ ordFirst = -1
    /\ ordFull = FALSE
    /\ ordLast = [emitted |-> <<>>,
                  late |-> FALSE, pushedLen |-> 0, overflow |-> FALSE,
                  headAtOverflow |-> -1, nextAtOverflow |-> -1]
    /\ ordAge = <<>>

\* an Orderer constructed with any maxUnorderedChunks >= 1
OrdInit == \E max \in 1..MaxUnordered : OrdNew(max)

\* the Orderer of createAudioDecodedStream, line 323
DefaultMaxUnordered == 10

\* The history ordAge after a write with result r: ordAge[k] is the number of
\* frames pushed to the buffer since buffer[k] was pushed.  The pushed frame
\* is sorted in behind the frames whose index is not larger; the frames that
\* were emitted left at the front.
OrdAgeAfter(d, r) ==
    LET n      == Len(buffer)
        pushed == ~r.late /\ r.pushedLen = n + 1
        k      == Cardinality({j \in 1..n : buffer[j].i <= d.i})
        aged   == [j \in 1..n |-> ordAge[j] + 1]
        pre    == IF pushed
                  THEN SubSeq(aged, 1, k) \o <<0>> \o SubSeq(aged, k + 1, n)
                  ELSE ordAge
    IN  SubSeq(pre, Len(pre) - Len(r.buffer) + 1, Len(pre))

\* the effect of one write on the Orderer's variables
OrdApply(d) ==
    LET r == OrdererWrite(buffer, nextEmittableChunkIndex, maxUnorderedChunks, d)
    IN  /\ buffer' = r.buffer
        /\ ordAge' = OrdAgeAfter(d, r)
        /\ nextEmittableChunkIndex' = r.nextEmittableChunkIndex
        /\ ordOut' = ordOut \o r.emitted
        /\ ordSeen' = ordSeen \cup {d}
        /\ ordCount' = ordCount + 1
        /\ ordFirst' = IF ordCount = 0 THEN d.i ELSE ordFirst
        /\ ordFull' = (ordFull \/ r.overflow)
        /\ ordLast' = [emitted |-> r.emitted, late |-> r.late,
                       pushedLen |-> r.pushedLen, overflow |-> r.overflow,
                       headAtOverflow |-> r.headAtOverflow,
                       nextAtOverflow |-> r.nextAtOverflow]
        /\ UNCHANGED maxUnorderedChunks

\* the transport hands any frame over: lost, reordered or duplicated records
\* make every index, old or new, a possible next input
OrdWrite ==
    /\ ordCount < MaxWrites
    /\ \E i \in 0..MaxIdx, p \in OrdPayloads : OrdApply([i |-> i, chunk |-> p])
    /\ UNCHANGED <<wireVars, chkVars, resVars>>


(***************************************************************************)
(* AudioChunkStreamEncoder and AudioChunkStreamDecoder                     *)
(*                                                                         *)
(* A typed array (Uint8Array or Buffer) is a view                          *)
(* [isBuffer, mem, byteOffset, length] of the bytes mem of its ArrayBuffer.*)
(***************************************************************************)

\* the elements of a typed array
Elements(a) == SubSeq(a.mem, a.byteOffset + 1, a.byteOffset + a.length)

\* Uint32Array.BYTES_PER_ELEMENT
BYTES_PER_ELEMENT == 4

\* A chunk index on the wire is a number in [0, 2^32), beyond the integers
\* of the model checker: it is kept as its two 16-bit halves, hi * 2^16 + lo.
U32(hi, lo) == [hi |-> hi, lo |-> lo]

\* DataView.setUint32(0, v): ToUint32(v), most significant byte first
SetUint32_LittleEndian(v) ==
    <<v.lo % 256, v.lo \div 256, (v.hi % 65536) % 256, (v.hi % 65536) \div 256>>

SetUint32(v) ==
    <<(v.hi % 65536) \div 256, (v.hi % 65536) % 256, v.lo \div 256, v.lo % 256>>

\* DataView.getUint32(0) on four bytes, most significant byte first
GetUint32_Signed(b) ==
    U32(IF b[1] >= 128 THEN b[1] * 256 + b[2] - 65536 ELSE b[1] * 256 + b[2],
        b[3] * 256 + b[4])

GetUint32(b) ==
    U32(b[1] * 256 + b[2], b[3] * 256 + b[4])

\* AudioChunkStreamEncoder.write(d), lines 115-127: the Uint8Array handed to
\* super.write; it owns its ArrayBuffer
EncoderWrite(d) ==
    [isBuffer |-> FALSE,
     mem |-> SetUint32(d.i) \o d.chunk,
     byteOffset |-> 0,
     length |-> BYTES_PER_ELEMENT + Len(d.chunk)]

\* AudioChunkStreamDecoder.write(d), lines 136-147: either the DataView read
\* throws a RangeError, or one frame is handed to super.write
DecoderWrite(d) ==
    LET input == IF d.isBuffer
                 THEN [isBuffer |-> FALSE, mem |-> d.mem, byteOffset |-> 0,
                       length |-> Len(d.mem)]
                 ELSE d
        \* new DataView(input.buffer, input.byteOffset): to the end of the buffer
        viewLen == Len(input.mem) - input.byteOffset
    IN  IF viewLen < BYTES_PER_ELEMENT
        THEN [threw |-> TRUE, copied |-> TRUE, frames |-> <<>>]
        ELSE [threw |-> FALSE,
              \* TypedArray.prototype.slice allocates a new ArrayBuffer
              copied |-> TRUE,
              frames |-> <<[i |-> GetUint32(SubSeq(input.mem,
                                      input.byteOffset + 1,
                                      input.byteOffset + BYTES_PER_ELEMENT)),
                            \* input.slice(4): a copy of the elements from 4 on
                            chunk |-> SubSeq(Elements(input),
                                             BYTES_PER_ELEMENT + 1,
                                             input.length)]>>]

\* indices and payloads of the frames handed to the Encoder
WireIdx == {U32(0, 0), U32(0, 258), U32(1, 0), U32(57005, 48879),
            U32(65535, 65535)}
WirePayloads == {<<>>, <<1, 2, 3>>}

\* what the transport hands over instead of a record: fewer than 4 bytes
ShortRecords == {<<>>, <<222, 173, 190>>}

\* The transport hands a record over as a typed array of its own choice: the
\* Uint8Array the Encoder emitted (direct), or a Uint8Array or Buffer view of
\* the record inside its receive buffer, behind older and in front of later
\* bytes.
RecvBefore == {<<>>, <<9, 9>>}
RecvAfter == {<<>>, <<8, 8, 8, 8>>}

Received(bytes, isBuf, pre, post) ==
    [isBuffer |-> isBuf, mem |-> pre \o bytes \o post,
     byteOffset |-> Len(pre), length |-> Len(bytes)]

NoFrame == [i |-> U32(-1, 0), chunk |-> <<>>]

WireInit ==
    /\ sent = {}
    /\ encLast = [d |-> NoFrame, record |-> Received(<<>>, FALSE, <<>>, <<>>)]
    /\ decCount = 0
    /\ decLast = [kind |-> "none", src |-> NoFrame, bytes |-> <<>>,
                  isBuffer |-> FALSE, byteOffset |-> 0,
                  threw |-> FALSE, copied |-> TRUE, frames |-> <<>>]

\* Encoder.write: frame d goes on the wire
EncWrite ==
    /\ Cardinality(sent) < MaxSent
    /\ \E i \in WireIdx, p \in WirePayloads :
          LET d == [i |-> i, chunk |-> p]
          IN  /\ d \notin sent
              /\ sent' = sent \cup {d}
              /\ encLast' = [d |-> d, record |-> EncoderWrite(d)]
    /\ UNCHANGED <<ordVars, chkVars, resVars, decCount, decLast>>

\* Decoder.write(rec).  The frames of the result are what super.write hands
\* downstream, to the Orderer piped behind the Decoder (line 325), whose state
\* changes in Orderer.write only.
DecApply(kind, src, rec) ==
    LET r == DecoderWrite(rec)
    IN  /\ decCount' = decCount + 1
        /\ decLast' = [kind |-> kind, src |-> src, bytes |-> Elements(rec),
                       isBuffer |-> rec.isBuffer, byteOffset |-> rec.byteOffset,
                       threw |-> r.threw, copied |-> r.copied,
                       frames |-> r.frames]
        /\ UNCHANGED <<ordVars, chkVars, resVars, sent, encLast>>

\* the Decoder is given the very Uint8Array the Encoder emitted
DecDirect ==
    /\ decCount < MaxDeliver
    /\ \E d \in sent : DecApply("direct", d, EncoderWrite(d))

\* the Decoder is given a record as a view of the transport's receive buffer
DecReceived ==
    /\ decCount < MaxDeliver
    /\ \E d \in sent, isBuf \in BOOLEAN, pre \in RecvBefore, post \in RecvAfter :
          DecApply("received", d,
                   Received(Elements(EncoderWrite(d)), isBuf, pre, post))

\* the Decoder is given a malformed record, shorter than 4 bytes
DecMalformed ==
    /\ decCount < MaxDeliver
    /\ \E b \in ShortRecords, isBuf \in BOOLEAN,
          pre \in RecvBefore, post \in RecvAfter :
          DecApply("malformed", NoFrame, Received(b, isBuf, pre, post))

WireNext == EncWrite \/ DecDirect \/ DecReceived \/ DecMalformed

(***************************************************************************)
(* AudioChunkStream                                                        *)
(***************************************************************************)

\* constructor parameters (lines 34-37)
StartTime == 3
ChunkDuration == 2
ChunkSize == 4

MIN_LOOP_ITERATION_WITHOUT_DATA_TO_STOP_READING == 5

\* private now = () => now() - this.startTime
Now == wallClock - StartTime

\* the k-th byte the source produces; the code never looks at a byte's value
SrcByte(k) == k

\* sourceStream.read(size) of a Node readable stream holding the bytes
\* taken+1..fed: size bytes when that many are buffered, all that is left when
\* the stream has ended, null (here the empty sequence) otherwise
SourceRead(fed, taken, ended, size) ==
    IF fed - taken >= size THEN [j \in 1..size |-> SrcByte(taken + j)]
    ELSE IF ended /\ fed > taken THEN [j \in 1..(fed - taken) |-> SrcByte(taken + j)]
    ELSE <<>>

\* lines 89-96: an incomplete chunk is completed with zeros
CompleteChunk_NoPadding(chunk) ==
    chunk

CompleteChunk(chunk) ==
    IF Len(chunk) # ChunkSize
    THEN [j \in 1..ChunkSize |-> IF j <= Len(chunk) THEN chunk[j] ELSE 0]
    ELSE chunk

\* stopReadLoop, lines 55-62
StopReadLoop_KeepIndex(c) ==
    [c EXCEPT !.loopIterationWithoutData = 0,
              !.readInterval = FALSE,
              !.stopped = TRUE]

StopReadLoop(c) ==
    [c EXCEPT !.loopIterationWithoutData = 0,
              !.lastEmittedChunkIndex = -1,
              !.readInterval = FALSE,
              !.stopped = TRUE]

\* line 71: this chunk is in the future, do nothing and wait for the next tick
ChunkInFuture_OffByOne(currentChunkLatency) ==
    currentChunkLatency <= 0

ChunkInFuture(currentChunkLatency) ==
    currentChunkLatency < 0

\* _pushNecessaryChunks, lines 66-105, on the state c of the object and of
\* its source; c.emitted, c.empty, c.stopped record what the call did
RECURSIVE PushNecessaryChunks(_)
PushNecessaryChunks(c) ==
    LET currentChunkIndex ==
            IF c.lastEmittedChunkIndex = -1
            THEN Now \div ChunkDuration
            ELSE c.lastEmittedChunkIndex + 1
        currentChunkLatency == Now - (currentChunkIndex * ChunkDuration)
        chunk == SourceRead(srcFed, c.srcTaken, srcEnded, ChunkSize)
    IN  IF ChunkInFuture(currentChunkLatency) THEN c
        ELSE IF chunk = <<>>
        THEN LET c1 == [c EXCEPT !.loopIterationWithoutData = @ + 1,
                                 !.empty = TRUE]
             IN  IF c1.loopIterationWithoutData
                        >= MIN_LOOP_ITERATION_WITHOUT_DATA_TO_STOP_READING
                 THEN StopReadLoop(c1)
                 ELSE c1
        ELSE PushNecessaryChunks(
                 [c EXCEPT !.loopIterationWithoutData = 0,
                           !.srcTaken = @ + Len(chunk),
                           !.emitted = Append(@, [i |-> currentChunkIndex,
                                                  chunk |-> CompleteChunk(chunk),
                                                  read |-> chunk]),
                           !.lastEmittedChunkIndex = currentChunkIndex])

\* the object and its source as a handler finds them
ChkState ==
    [lastEmittedChunkIndex |-> lastEmittedChunkIndex,
     loopIterationWithoutData |-> loopIterationWithoutData,
     readInterval |-> readInterval, srcTaken |-> srcTaken,
     emitted |-> <<>>, empty |-> FALSE, stopped |-> FALSE]

\* startReadLoop, lines 46-53: the handler of the source's 'readable' event
StartReadLoop_NoReset(c) ==
    IF c.readInterval THEN c
    ELSE [PushNecessaryChunks([c EXCEPT !.loopIterationWithoutData = 0])
              EXCEPT !.readInterval = TRUE]

StartReadLoop_AlwaysDrain(c) ==
    LET c0 == [c EXCEPT !.loopIterationWithoutData = 0]
    IN  [PushNecessaryChunks(c0) EXCEPT !.readInterval = TRUE]

StartReadLoop(c) ==
    LET c0 == [c EXCEPT !.loopIterationWithoutData = 0]
    IN  IF c0.readInterval THEN c0
        ELSE [PushNecessaryChunks(c0) EXCEPT !.readInterval = TRUE]

\* read would return a chunk
SrcReadable(fed, taken, ended) ==
    SourceRead(fed, taken, ended, ChunkSize) # <<>>

Max(a, b) == IF a >= b THEN a ELSE b

ChkInit ==
    /\ wallClock = StartTime
    /\ srcFed = 0
    /\ srcTaken = 0
    /\ srcEnded = FALSE
    /\ srcSignal = FALSE
    /\ readInterval = FALSE
    /\ nextTick = 0
    /\ lastEmittedChunkIndex = -1
    /\ loopIterationWithoutData = 0
    /\ chkEnded = FALSE
    /\ chkOut = <<>>
    /\ chkTrack = [starvedSince |-> 0, maxStall |-> 0, emptyReads |-> 0,
                   emptyRuns |-> 0, stopped |-> FALSE]
    /\ chkLast = [handler |-> "none", empty |-> FALSE, emitted |-> 0,
                  timerWasSet |-> FALSE]

\* The history kept for the properties, after a handler that ended in state
\* c.  Each chunk is recorded with the time it was emitted at, the handler
\* that emitted it and, since the chunk before it: the longest time the source
\* could not be read (stall), the reads that returned nothing (emptyReads)
\* and whether stopReadLoop ran (stopped).  emptyRuns counts the reads that
\* returned nothing since the last successful read or 'readable' event.
ChkRecord(handler, c) ==
    LET n == Len(c.emitted)
        e == IF c.empty THEN 1 ELSE 0
    IN  /\ chkOut' = chkOut \o
               [k \in 1..n |->
                   [i |-> c.emitted[k].i, chunk |-> c.emitted[k].chunk,
                    read |-> c.emitted[k].read, t |-> Now,
                    handler |-> handler,
                    stall |-> IF k = 1 THEN chkTrack.maxStall ELSE 0,
                    emptyReads |-> IF k = 1 THEN chkTrack.emptyReads ELSE 0,
                    stopped |-> IF k = 1 THEN chkTrack.stopped ELSE FALSE]]
        /\ chkTrack' =
               [starvedSince |->
                    IF n > 0
                    THEN (IF SrcReadable(srcFed, c.srcTaken, srcEnded)
                          THEN -1 ELSE Now)
                    ELSE chkTrack.starvedSince,
                maxStall |-> IF n > 0 THEN 0 ELSE chkTrack.maxStall,
                emptyReads |-> IF n > 0 THEN e ELSE chkTrack.emptyReads + e,
                emptyRuns |-> IF n > 0 \/ handler = "readable" THEN e
                              ELSE chkTrack.emptyRuns + e,
                stopped |-> IF n > 0 THEN c.stopped
                            ELSE (chkTrack.stopped \/ c.stopped)]
        /\ chkLast' = [handler |-> handler, empty |-> c.empty, emitted |-> n,
                       timerWasSet |-> readInterval]

ChkApply(handler, c) ==
    /\ lastEmittedChunkIndex' = c.lastEmittedChunkIndex
    /\ loopIterationWithoutData' = c.loopIterationWithoutData
    /\ readInterval' = c.readInterval
    /\ srcTaken' = c.srcTaken
    /\ ChkRecord(handler, c)

\* the source's 'readable' event, emitted after data arrived or it ended
Readable ==
    /\ srcSignal
    /\ srcSignal' = FALSE
    /\ ChkApply("readable", StartReadLoop(ChkState))
    /\ nextTick' = IF readInterval THEN nextTick ELSE wallClock + ChunkDuration
    /\ UNCHANGED <<wallClock, srcFed, srcEnded, chkEnded>>
    /\ UNCHANGED <<ordVars, wireVars, resVars>>

\* a tick of the setInterval timer: never early, the next one a period later
TimerTick ==
    /\ readInterval
    /\ wallClock >= nextTick
    /\ ChkApply("tick", PushNecessaryChunks(ChkState))
    /\ nextTick' = wallClock + ChunkDuration
    /\ UNCHANGED <<wallClock, srcFed, srcEnded, srcSignal, chkEnded>>
    /\ UNCHANGED <<ordVars, wireVars, resVars>>

\* time passes; a tick that is due is not delayed by more than MaxLate
TimePasses ==
    /\ wallClock < StartTime + MaxTime
    /\ readInterval => wallClock < nextTick + MaxLate
    /\ wallClock' = wallClock + 1
    /\ UNCHANGED <<srcFed, srcTaken, srcEnded, srcSignal, readInterval, nextTick,
                   lastEmittedChunkIndex, loopIterationWithoutData, chkEnded,
                   chkOut, chkTrack, chkLast>>
    /\ UNCHANGED <<ordVars, wireVars, resVars>>

\* the end of a starvation when the source becomes readable again
SrcTrack(fed, ended) ==
    IF chkTrack.starvedSince >= 0 /\ SrcReadable(fed, srcTaken, ended)
    THEN [chkTrack EXCEPT !.starvedSince = -1,
                          !.maxStall = Max(@, Now - chkTrack.starvedSince)]
    ELSE chkTrack

\* the source produces n more bytes
SourcePush ==
    /\ ~srcEnded
    /\ \E n \in {1, ChunkSize - 1, ChunkSize} :
          /\ srcFed + n <= MaxFeed
          /\ srcFed' = srcFed + n
          /\ chkTrack' = SrcTrack(srcFed + n, srcEnded)
    /\ srcSignal' = TRUE
    /\ UNCHANGED <<wallClock, srcTaken, srcEnded, readInterval, nextTick,
                   lastEmittedChunkIndex, loopIterationWithoutData, chkEnded,
                   chkOut, chkLast>>
    /\ UNCHANGED <<ordVars, wireVars, resVars>>

\* The source stream closes.  The constructor listens to 'readable' only
\* (line 43): the class has no 'end' or 'close' handler and no handler of it
\* calls this.end(), so chkEnded is left as it is by every action.
SourceEnd ==
    /\ ~srcEnded
    /\ srcEnded' = TRUE
    /\ chkTrack' = SrcTrack(srcFed, TRUE)
    /\ srcSignal' = TRUE
    /\ UNCHANGED <<wallClock, srcFed, srcTaken, readInterval, nextTick,
                   lastEmittedChunkIndex, loopIterationWithoutData, chkEnded,
                   chkOut, chkLast>>
    /\ UNCHANGED <<ordVars, wireVars, resVars>>

ChkNext == Readable \/ TimerTick \/ TimePasses \/ SourcePush \/ SourceEnd

(***************************************************************************)
(* AudioChunkStreamResampler                                               *)
(***************************************************************************)

\* outputChunkTargetLength (line 241)
OutputChunkTargetLength == 2

\* resampledBuffer (line 246) bounds the output of one processChunk call
ResampledBufferLength == OutputChunkTargetLength * 3

\* alignementBuffer.length (line 244): "a big alignement buffer", a multiple
\* of outputChunkTargetLength (line 245) that holds at least the output of one
\* processChunk call.  AlignementBufferLength is the smallest such length.
AlignementBufferLength == 3 * OutputChunkTargetLength
AlignementBufferLengths ==
    {m * OutputChunkTargetLength :
        m \in (ResampledBufferLength \div OutputChunkTargetLength)
                  ..MaxCapacityFrames}

\* this.alignementBuffer.length
Length(buf) == Cardinality(DOMAIN buf)

\* rollover(value, min, max) of ../misc: value wrapped into [min, max)
Rollover(value, min, max) == min + ((value - min) % (max - min))

\* the k-th byte the resampler produces (k = 1, 2, ...)
ResByte(k) == k

\* lines 270-278: alignementBuffer.set(...) of the n bytes produced after the
\* first `produced` ones, at bufferOffset, in two passes when they do not fit
AlignementSet_NoSecondPass(buf, offset, produced, n) ==
    LET len == Length(buf)
    IN  [x \in 0..(len - 1) |->
            IF x >= offset /\ x < offset + n
            THEN ResByte(produced + (x - offset) + 1)
            ELSE buf[x]]

AlignementSet(buf, offset, produced, n) ==
    LET len == Length(buf)
    IN  IF offset + n > len
        THEN LET overflow == (offset + n) - len
                 first    == n - overflow
             IN  [x \in 0..(len - 1) |->
                     IF x >= offset THEN ResByte(produced + (x - offset) + 1)
                     ELSE IF x < overflow THEN ResByte(produced + first + x + 1)
                     ELSE buf[x]]
        ELSE [x \in 0..(len - 1) |->
                 IF x >= offset /\ x < offset + n
                 THEN ResByte(produced + (x - offset) + 1)
                 ELSE buf[x]]

\* alignementBuffer.subarray(begin, end): the view is clamped to the buffer
Subarray(buf, begin, end) ==
    LET e == IF end > Length(buf) THEN Length(buf) ELSE end
    IN  [j \in 1..(IF e > begin THEN e - begin ELSE 0) |-> buf[begin + j - 1]]

\* line 284: const [chunkIndex] = this.chunkIndexToEmit.splice(0, 1)
SpliceFirst_Last(q) ==
    [chunkIndex |-> q[Len(q)], rest |-> SubSeq(q, 1, Len(q) - 1)]

SpliceFirst(q) ==
    [chunkIndex |-> Head(q), rest |-> Tail(q)]

\* line 283: a whole frame is buffered and an index waits for it
FrameBuffered_MoreThanOne(r) ==
    r.bufferSize > OutputChunkTargetLength /\ Len(r.chunkIndexToEmit) > 0

FrameBuffered(r) ==
    r.bufferSize >= OutputChunkTargetLength /\ Len(r.chunkIndexToEmit) > 0

\* line 294: this.bufferSize -= this.outputChunkTargetLength
AfterEmit_Emptied(size) ==
    0

AfterEmit(size) ==
    size - OutputChunkTargetLength

\* lines 283-295: emit frames while a whole one is buffered and an index waits
RECURSIVE EmitAligned(_)
EmitAligned(r) ==
    IF FrameBuffered(r)
    THEN LET sp     == SpliceFirst(r.chunkIndexToEmit)
             offset == Rollover(r.bufferOffset - r.bufferSize, 0,
                                Length(r.alignementBuffer))
         IN  EmitAligned(
                 [r EXCEPT !.chunkIndexToEmit = sp.rest,
                           !.emitted = Append(@,
                               [i |-> sp.chunkIndex, offset |-> offset,
                                chunk |-> Subarray(r.alignementBuffer, offset,
                                              offset + OutputChunkTargetLength),
                                sizeBefore |-> r.bufferSize]),
                           !.bufferSize = AfterEmit(@)])
    ELSE r

\* AudioChunkStreamResampler.write(d), lines 249-298, when processChunk
\* returns n bytes, after `produced` bytes in the calls before
ResamplerWrite(r, i, produced, n) ==
    IF ~r.soxrModule THEN r
    ELSE LET r1 == [r EXCEPT !.chunkIndexToEmit = Append(@, i)]
         IN  IF n = 0 THEN r1
             ELSE EmitAligned(
                      [r1 EXCEPT
                          !.alignementBuffer =
                              AlignementSet(@, r.bufferOffset, produced, n),
                          !.bufferSize = @ + n,
                          !.bufferOffset =
                              (@ + n) % Length(r.alignementBuffer)])

Sum(seq) ==
    LET RECURSIVE S(_)
        S(k) == IF k = 0 THEN 0 ELSE seq[k] + S(k - 1)
    IN  S(Len(seq))

\* new AudioChunkStreamResampler(...) with an alignementBuffer of len bytes
ResNew(len) ==
    /\ soxrModule = FALSE
    /\ alignementBuffer = [x \in 0..(len - 1) |-> 0]
    /\ bufferOffset = 0
    /\ bufferSize = 0
    /\ chunkIndexToEmit = <<>>
    /\ resNextIdx = 0
    /\ resAccepted = <<>>
    /\ resLens = <<>>
    /\ resOver = FALSE
    /\ resOut = <<>>

\* a Resampler with any of the buffer lengths
ResInit == \E len \in AlignementBufferLengths : ResNew(len)

\* resampler.init() completes: soxrModule is set
ResReady ==
    /\ ~soxrModule
    /\ soxrModule' = TRUE
    /\ UNCHANGED <<alignementBuffer, bufferOffset, bufferSize, chunkIndexToEmit,
                   resNextIdx, resAccepted, resLens, resOver, resOut>>
    /\ UNCHANGED <<ordVars, wireVars, chkVars>>

\* write of the next chunk of the AudioChunkStream piped in front (line 310),
\* whose indices increase; processChunk returns any number of bytes that
\* resampledBuffer can hold
ResWrite ==
    /\ Len(resLens) < MaxResWrites
    /\ \E i \in {resNextIdx, resNextIdx + 1}, n \in 0..ResampledBufferLength :
          /\ i <= MaxResIdx
          /\ LET r == ResamplerWrite(
                          [soxrModule |-> soxrModule,
                           alignementBuffer |-> alignementBuffer,
                           bufferOffset |-> bufferOffset,
                           bufferSize |-> bufferSize,
                           chunkIndexToEmit |-> chunkIndexToEmit,
                           emitted |-> <<>>],
                          i, Sum(resLens), IF soxrModule THEN n ELSE 0)
             IN  /\ alignementBuffer' = r.alignementBuffer
                 /\ bufferOffset' = r.bufferOffset
                 /\ bufferSize' = r.bufferSize
                 /\ chunkIndexToEmit' = r.chunkIndexToEmit
                 /\ resNextIdx' = i + 1
                 /\ resAccepted' = IF soxrModule THEN Append(resAccepted, i)
                                   ELSE resAccepted
                 /\ resLens' = Append(resLens, IF soxrModule THEN n ELSE 0)
                 \* line 280: bufferSize += outputChunk.length
                 /\ resOver' = (resOver \/ (soxrModule /\ n > 0 /\
                                   bufferSize + n > Length(alignementBuffer)))
                 /\ resOut' = resOut \o r.emitted
    /\ UNCHANGED soxrModule
    /\ UNCHANGED <<ordVars, wireVars, chkVars>>

ResNext == ResReady \/ ResWrite

Init == OrdInit /\ WireInit /\ ChkInit /\ ResInit

Next == OrdWrite \/ WireNext \/ ChkNext \/ ResNext

Spec == Init /\ [][Next]_vars

\* the Orderer alone: any frames written to it
SpecOrderer == Init /\ [][OrdWrite]_vars

\* the other classes are checked beside the Orderer of createAudioDecodedStream
InitDefault ==
    /\ OrdNew(DefaultMaxUnordered)
    /\ WireInit
    /\ ChkInit
    /\ ResNew(AlignementBufferLength)

\* Encoder, transport and Decoder
SpecWire == InitDefault /\ [][WireNext]_vars

\* AudioChunkStream with its source stream, its timer and the clock
SpecChunker == InitDefault /\ [][ChkNext]_vars

\* AudioChunkStreamResampler and the soxr resampler behind it
InitResampler == OrdNew(DefaultMaxUnordered) /\ WireInit /\ ChkInit /\ ResInit

SpecResampler == InitResampler /\ [][ResNext]_vars

(***************************************************************************)
(* Properties of the Orderer                                               *)
(***************************************************************************)

\* the indices written so far
OrdSeenIdx == {f.i : f \in ordSeen}

\* the largest index written so far
OrdMaxIdx == CHOOSE m \in OrdSeenIdx : \A j \in OrdSeenIdx : j <= m

\* C1: the indices the Orderer emits are strictly increasing, whatever is
\* written (lost, reordered or duplicated frames): no index twice, none after
\* a larger one.
C1_EmittedStrictlyIncreasing ==
    \A k \in 1..(Len(ordOut) - 1) : ordOut[k].i < ordOut[k + 1].i

\* C2: the buffer never holds more than maxUnorderedChunks frames, neither
\* when write has returned nor right after the push inside write.
C2_BufferBounded ==
    /\ Len(buffer) <= maxUnorderedChunks
    /\ ordLast.pushedLen <= maxUnorderedChunks

\* a write pushed the frame that filled the buffer to maxUnorderedChunks
C2_Witness ==
    /\ ordLast.overflow
    /\ ordLast.pushedLen = maxUnorderedChunks
    /\ maxUnorderedChunks >= 2

\* distinct frames with contiguous indices a..b arrived, a first, and the
\* buffer never filled up
C3_Pre ==
    /\ ordCount > 0
    /\ ~ordFull
    /\ Cardinality(OrdSeenIdx) = ordCount
    /\ OrdSeenIdx = ordFirst..OrdMaxIdx

\* C3: under C3_Pre every frame written has been emitted exactly once, with
\* its payload, in the order a, a+1, ..., b, and the buffer is empty.
C3_ReorderingComplete ==
    C3_Pre =>
        /\ buffer = <<>>
        /\ Len(ordOut) = ordCount
        /\ \A k \in 1..Len(ordOut) :
               /\ ordOut[k].i = ordFirst + k - 1
               /\ ordOut[k] \in ordSeen

\* four or more frames arrived out of order and the last write released
\* frames that were waiting in the buffer
C3_Witness ==
    /\ C3_Pre
    /\ ordCount >= 4
    /\ Len(ordLast.emitted) >= 2
    /\ buffer = <<>>

\* positions of the empty-payload frames among those the last write emitted
OrdLastEmpties ==
    {k \in 1..Len(ordLast.emitted) : ordLast.emitted[k].chunk = EmptyChunk}

\* C4: a write that fills the buffer emits an empty-payload frame iff exactly
\* one index is missing; the frame carries next_index and comes immediately
\* before the head frame and the frames draining behind it.  With more than
\* one index missing there is no empty frame and the emission starts at the
\* head index.  No other write emits an empty-payload frame.
C4_ConcealOnlySingleGap ==
    LET e    == ordLast.emitted
        head == ordLast.headAtOverflow
        nxt  == ordLast.nextAtOverflow
    IN  /\ (ordLast.overflow /\ head - nxt = 1) =>
               /\ OrdLastEmpties = {1}
               /\ e[1].i = nxt
               /\ Len(e) >= 2
               /\ \A k \in 2..Len(e) : e[k].i = head + k - 2
        /\ (ordLast.overflow /\ head - nxt # 1) =>
               /\ OrdLastEmpties = {}
               /\ Len(e) >= 1
               /\ \A k \in 1..Len(e) : e[k].i = head + k - 1
               /\ nextEmittableChunkIndex = head + Len(e)
        /\ ~ordLast.overflow => OrdLastEmpties = {}
        /\ (Len(buffer) > 0 /\ ~ordLast.late) =>
               buffer[1].i # nextEmittableChunkIndex

\* the buffer filled with one index missing: the synthetic frame, the head
\* and one more contiguous frame were emitted
C4_Witness ==
    /\ ordLast.overflow
    /\ ordLast.headAtOverflow - ordLast.nextAtOverflow = 1
    /\ Len(ordLast.emitted) >= 3

\* the buffer filled with several indices missing
C4_WitnessSkip ==
    /\ ordLast.overflow
    /\ ordLast.headAtOverflow - ordLast.nextAtOverflow > 1

\* C12 as claimed: a frame left in the buffer by a write has seen fewer than
\* maxUnorderedChunks - 1 further frames buffered after it (it is emitted no
\* later than the write that buffers the (maxUnorderedChunks - 1)-th one), and
\* the buffer holds fewer than maxUnorderedChunks frames.
C12_GapBlocksAtMost ==
    /\ \A k \in 1..Len(buffer) : ordAge[k] < maxUnorderedChunks - 1
    /\ Len(buffer) < maxUnorderedChunks

\* C12 as amended: whenever a write returns, the buffer holds fewer than
\* maxUnorderedChunks frames, because a write that finds the buffer full
\* emits at least the head frame it found there.
C12_BufferBelowMax ==
    /\ Len(buffer) < maxUnorderedChunks
    /\ Len(ordAge) = Len(buffer)
    /\ ordLast.overflow =>
          /\ ordLast.pushedLen = maxUnorderedChunks
          /\ \E k \in 1..Len(ordLast.emitted) :
                ordLast.emitted[k].i = ordLast.headAtOverflow
          /\ Len(buffer) < ordLast.pushedLen

\* a write found the buffer full and emitted its head, and a frame behind a
\* second gap is still buffered after maxUnorderedChunks - 1 further frames
C12_Witness ==
    /\ ordLast.overflow
    /\ maxUnorderedChunks >= 2
    /\ Len(buffer) >= 1
    /\ ordAge[Len(buffer)] >= maxUnorderedChunks - 1
    /\ buffer[1].i > nextEmittableChunkIndex

\* C19: whenever write has returned, whatever was written (duplicated indices
\* included), every buffered frame has an index above
\* nextEmittableChunkIndex and the buffered indices are strictly increasing:
\* no buffered frame is stale or emittable, no index is buffered twice.
C19_BufferAheadOfNext ==
    /\ \A k \in 1..Len(buffer) : buffer[k].i > nextEmittableChunkIndex
    /\ \A k \in 1..(Len(buffer) - 1) : buffer[k].i < buffer[k + 1].i

(***************************************************************************)
(* Properties of the Encoder and the Decoder                               *)
(***************************************************************************)

\* C9: Encoder.write emits 4 + payload.length bytes, the big-endian 32-bit
\* index followed by the payload, and Decoder.write applied to that record
\* emits the same index and the same payload, for indices up to 2^32 - 1.
C9_FramerDeframerIdentity ==
    /\ encLast.d # NoFrame =>
          LET d == encLast.d
              bytes == Elements(encLast.record)
          IN  /\ encLast.record.length = 4 + Len(d.chunk)
              /\ Len(bytes) = 4 + Len(d.chunk)
              /\ bytes[1] * 256 + bytes[2] = d.i.hi
              /\ bytes[3] * 256 + bytes[4] = d.i.lo
              /\ \A k \in 1..4 : bytes[k] \in 0..255
              /\ \A k \in 1..Len(d.chunk) : bytes[4 + k] = d.chunk[k]
    /\ decLast.kind = "direct" =>
          /\ ~decLast.threw
          /\ decLast.frames = <<decLast.src>>

\* (0xDEADBEEF, [1,2,3]) was framed as [0xDE,0xAD,0xBE,0xEF,1,2,3] and that
\* record was deframed
C9_Witness ==
    /\ decLast.kind = "direct"
    /\ decLast.src = [i |-> U32(57005, 48879), chunk |-> <<1, 2, 3>>]
    /\ decLast.bytes = <<222, 173, 190, 239, 1, 2, 3>>
    /\ encLast.d = decLast.src

\* C10: a malformed record (fewer than 4 bytes) is discarded: Decoder.write
\* raises no error and hands no frame downstream, so the Orderer is not
\* written to.
C10_MalformedDiscarded ==
    decLast.kind = "malformed" => (~decLast.threw /\ decLast.frames = <<>>)

\* after a malformed record a well-formed one is still deframed
C10_LaterRecordsDeframed ==
    decLast.kind = "direct" => decLast.frames = <<decLast.src>>

\* C18: for a record of 4 bytes or more handed over as a view (Buffer or
\* Uint8Array) at any offset of the transport's receive buffer, Decoder.write
\* emits one frame: the index is the big-endian value of the record's first
\* four bytes, the payload is the record's other bytes, and the payload is a
\* copy that a later write to the receive buffer does not change.
C18_DeframerReadsOwnBytes ==
    (decLast.kind = "received" /\ Len(decLast.bytes) >= BYTES_PER_ELEMENT) =>
        /\ ~decLast.threw
        /\ decLast.copied
        /\ Len(decLast.frames) = 1
        /\ decLast.frames[1].i
              = GetUint32(SubSeq(decLast.bytes, 1, BYTES_PER_ELEMENT))
        /\ decLast.frames[1].chunk
              = SubSeq(decLast.bytes, BYTES_PER_ELEMENT + 1, Len(decLast.bytes))

(***************************************************************************)
(* Properties of the AudioChunkStream                                      *)
(***************************************************************************)

\* C5: emitted indices are strictly increasing; two consecutive indices
\* differ by 1 unless the source starved for at least 5 chunk durations
\* between them, and then the later one is floor(now / chunkDuration) at the
\* time it is emitted; for every interleaving of ticks, 'readable' events and
\* source data.
C5_IndexFollowsStall ==
    \A k \in 2..Len(chkOut) :
        /\ chkOut[k].i > chkOut[k - 1].i
        /\ IF chkOut[k].stall
                 >= MIN_LOOP_ITERATION_WITHOUT_DATA_TO_STOP_READING * ChunkDuration
           THEN chkOut[k].i = chkOut[k].t \div ChunkDuration
           ELSE chkOut[k].i = chkOut[k - 1].i + 1

\* C6: every emitted chunk has chunkSize bytes: the bytes read, in order,
\* followed by zeros when the read was short; chunkSize + 3 bytes and then
\* closure give two chunks, the second the 3 bytes and chunkSize - 3 zeros.
C6_ChunksHaveChunkSize ==
    /\ \A k \in 1..Len(chkOut) :
          LET c == chkOut[k].chunk
              r == chkOut[k].read
          IN  /\ Len(c) = ChunkSize
              /\ Len(r) >= 1 /\ Len(r) <= ChunkSize
              /\ \A j \in 1..Len(r) : c[j] = r[j]
              /\ \A j \in (Len(r) + 1)..ChunkSize : c[j] = 0
    /\ (srcEnded /\ srcFed = ChunkSize + 3 /\ srcTaken = srcFed) =>
          /\ Len(chkOut) = 2
          /\ chkOut[1].chunk = [j \in 1..ChunkSize |-> SrcByte(j)]
          /\ chkOut[2].chunk = [j \in 1..ChunkSize |->
                                   IF j <= 3 THEN SrcByte(ChunkSize + j) ELSE 0]

\* chunkSize + 3 bytes were fed, the source closed and the tail was emitted
C6_Witness ==
    /\ srcEnded
    /\ srcFed = ChunkSize + 3
    /\ Len(chkOut) = 2
    /\ Len(chkOut[2].read) = 3
    /\ chkOut[2].chunk = <<5, 6, 7, 0>>

\* C5 as amended: emitted indices are strictly increasing; two consecutive
\* indices differ by 1 unless stopReadLoop ran between them, and then the
\* later one is floor(now / chunkDuration) at the time it is emitted.
C5_IndexFollowsStop ==
    \A k \in 2..Len(chkOut) :
        /\ chkOut[k].i > chkOut[k - 1].i
        /\ IF chkOut[k].stopped
           THEN chkOut[k].i = chkOut[k].t \div ChunkDuration
           ELSE chkOut[k].i = chkOut[k - 1].i + 1

\* the read loop stopped after a chunk and the next chunk's index jumped to
\* the clock
C5_Witness ==
    \E k \in 2..Len(chkOut) :
        /\ chkOut[k].stopped
        /\ chkOut[k].i > chkOut[k - 1].i + 1
        /\ chkOut[k].i = chkOut[k].t \div ChunkDuration

\* C7: the run of the drain loop whose read is the 5th in a row to return
\* nothing, with no successful read in between, stops the timer and clears
\* lastEmittedChunkIndex; no chunk is emitted until the next 'readable' event,
\* and that chunk has the index floor(now / chunkDuration); after fewer than
\* 5 such reads the timer keeps running and the next index is the last one
\* plus 1.
C7_StopAfterFiveEmptyReads ==
    /\ (chkLast.empty /\ chkTrack.emptyReads = 5) =>
          (~readInterval /\ lastEmittedChunkIndex = -1)
    /\ \A k \in 2..Len(chkOut) :
          IF chkOut[k].emptyReads >= 5
          THEN chkOut[k].i = chkOut[k].t \div ChunkDuration
          ELSE chkOut[k].i = chkOut[k - 1].i + 1

\* C7 as amended: the count is of the reads that returned nothing since the
\* last successful read or 'readable' event.  The run in which it reaches 5
\* stops the timer and clears lastEmittedChunkIndex; a 'readable' event
\* restarts the timer, and the next chunk, emitted by that handler or by a
\* later tick, has the index floor(now / chunkDuration) of its emission.
\* Below 5 a tick leaves the timer running and the next index is the last
\* one plus 1.
C7_StopAfterFiveIdleRuns ==
    /\ chkTrack.emptyRuns <= 5
    /\ (chkLast.empty /\ chkTrack.emptyRuns = 5) =>
          (~readInterval /\ lastEmittedChunkIndex = -1)
    /\ (chkLast.handler = "tick" /\ chkTrack.emptyRuns < 5) => readInterval
    /\ (chkTrack.emptyRuns < 5 /\ Len(chkOut) > 0 /\ ~chkTrack.stopped) =>
          lastEmittedChunkIndex = chkOut[Len(chkOut)].i
    /\ chkLast.handler = "readable" => readInterval
    /\ (chkLast.handler = "tick" /\ chkLast.emitted > 0) => chkLast.timerWasSet
    /\ \A k \in 2..Len(chkOut) :
          IF chkOut[k].stopped
          THEN chkOut[k].i = chkOut[k].t \div ChunkDuration
          ELSE chkOut[k].i = chkOut[k - 1].i + 1

\* a chunk, five idle runs that stopped the timer, then a 'readable' event
\* whose chunk jumped five or more indices ahead
C7_Witness ==
    \E k \in 2..Len(chkOut) :
        /\ chkOut[k].stopped
        /\ chkOut[k].emptyReads >= 5
        /\ chkOut[k].handler = "readable"
        /\ chkOut[k].i >= chkOut[k - 1].i + 5
        /\ readInterval

\* the chunk _pushNecessaryChunks would emit next is due (not in the future)
\* and the source can be read
DueAndReadable ==
    LET currentChunkIndex ==
            IF lastEmittedChunkIndex = -1
            THEN Now \div ChunkDuration
            ELSE lastEmittedChunkIndex + 1
    IN  /\ Now - (currentChunkIndex * ChunkDuration) >= 0
        /\ SrcReadable(srcFed, srcTaken, srcEnded)

\* C13 as claimed: the handling of a 'readable' event that arrives while the
\* timer is set runs the drain loop: when it returns, no chunk is left that is
\* due and readable.
C13_ReadableDrains ==
    [][(Readable /\ readInterval) => ~DueAndReadable']_vars

\* C13 as amended: a timer tick, and a 'readable' event that finds the timer
\* not set, run the drain loop (no chunk is left due and readable, and the
\* 'readable' event sets the timer); a 'readable' event that finds the timer
\* set only resets loopIterationWithoutData: it reads and emits nothing, and
\* leaves the timer and lastEmittedChunkIndex alone.
C13_ReadableOnlyStartsLoop ==
    [][/\ TimerTick => ~DueAndReadable'
       /\ (Readable /\ ~readInterval) => (~DueAndReadable' /\ readInterval')
       /\ (Readable /\ readInterval) =>
              /\ loopIterationWithoutData' = 0
              /\ UNCHANGED <<chkOut, srcTaken, readInterval, nextTick,
                             lastEmittedChunkIndex>>]_vars

\* a 'readable' event found the timer set and emitted nothing; a chunk is due
\* and readable, and the next tick is still to come
C13_Witness ==
    /\ chkLast.handler = "readable"
    /\ chkLast.timerWasSet
    /\ chkLast.emitted = 0
    /\ readInterval
    /\ DueAndReadable
    /\ wallClock < nextTick

\* a handler that runs the drain loop: a tick, or a 'readable' event that
\* finds the timer not set
DrainRun == TimerTick \/ (Readable /\ ~readInterval)

\* C14: no chunk is emitted for a slot in the future (i * chunkDuration <= now
\* at its emission); a run of the drain loop that never found the source
\* without a chunk ends with lastEmittedChunkIndex = floor(now /
\* chunkDuration); and when the first index was 0 and the loop was never
\* stopped, the chunks emitted up to such a run are exactly those with the
\* indices 0..floor(now / chunkDuration).
C14_PacingAndCatchUp ==
    [][/\ \A k \in 1..Len(chkOut') :
              chkOut'[k].i * ChunkDuration <= chkOut'[k].t
       /\ (DrainRun /\ ~chkLast'.empty) =>
              /\ lastEmittedChunkIndex' = Now' \div ChunkDuration
              /\ Len(chkOut') > 0
              /\ chkOut'[Len(chkOut')].i = Now' \div ChunkDuration
              /\ (chkOut'[1].i = 0 /\ \A k \in 1..Len(chkOut') :
                                          ~chkOut'[k].stopped) =>
                     /\ Len(chkOut') = (Now' \div ChunkDuration) + 1
                     /\ \A k \in 1..Len(chkOut') : chkOut'[k].i = k - 1]_vars

\* a tick found two chunks backed up and emitted both in one run, the second
\* one for the slot of the present time
C14_Witness ==
    /\ chkLast.handler = "tick"
    /\ chkLast.emitted >= 2
    /\ ~chkLast.empty
    /\ Len(chkOut) >= 3
    /\ chkOut[Len(chkOut)].i = chkOut[Len(chkOut)].t \div ChunkDuration
    /\ chkOut[Len(chkOut) - 1].t = chkOut[Len(chkOut)].t
    /\ chkOut[Len(chkOut) - 1].i * ChunkDuration < chkOut[Len(chkOut) - 1].t

\* the AudioChunkStream is at rest: its source has closed, every byte of it was
\* taken, no 'readable' event is pending and the timer is not set, so that no
\* handler of the object runs any more
ChkAtRest ==
    /\ srcEnded
    /\ srcTaken = srcFed
    /\ ~srcSignal
    /\ ~readInterval

\* C11: once the source has closed and its bytes were emitted, the timer is
\* stopped and the output stream is ended: when the AudioChunkStream has come
\* to rest with the timer stopped, end() was called on its output.
C11_ClosedSourceEndsStream ==
    ChkAtRest => chkEnded

(***************************************************************************)
(* Properties of the AudioChunkStreamResampler                             *)
(***************************************************************************)

\* C8: the k-th index the Resampler emits is the k-th index it accepted, it
\* never emits more frames than it accepted chunks, and the indices not yet
\* emitted are the pending queue, in arrival order; for any output lengths.
C8_IndexOrderPreserved ==
    /\ Len(resOut) <= Len(resAccepted)
    /\ \A k \in 1..Len(resOut) : resOut[k].i = resAccepted[k]
    /\ chunkIndexToEmit = SubSeq(resAccepted, Len(resOut) + 1, Len(resAccepted))

\* an empty output and an output longer than one frame occurred, two frames
\* or more were emitted and an index is still waiting
C8_Witness ==
    /\ Len(resOut) >= 2
    /\ \E k \in 1..Len(resLens) : resLens[k] = 0 /\ k > 1
    /\ \E k \in 1..Len(resLens) : resLens[k] > OutputChunkTargetLength
    /\ chunkIndexToEmit # <<>>
    /\ resOut[2].i # resOut[1].i + 1

\* the sum of the first j elements of seq
SumTo(seq, j) == Sum(SubSeq(seq, 1, j))

\* the k-th frame (k = 1, 2, ...) of the concatenation of all resampler outputs
ResFrame(k) ==
    [j \in 1..OutputChunkTargetLength |->
        ResByte((k - 1) * OutputChunkTargetLength + j)]

\* C15: after write has returned, for any output length of processChunk, the
\* emission loop has run to its end: never is a whole frame buffered while an
\* index waits in chunkIndexToEmit.
C15_EmissionLoopComplete ==
    ~(bufferSize >= OutputChunkTargetLength /\ chunkIndexToEmit # <<>>)

\* C16: every frame is emitted from an offset that is a multiple of
\* outputChunkTargetLength, with the whole frame in front of the end of the
\* alignementBuffer, and has outputChunkTargetLength bytes; for any output
\* lengths, also those that overrun the buffer.
C16_FrameNeverStraddles ==
    \A k \in 1..Len(resOut) :
        /\ resOut[k].offset >= 0
        /\ resOut[k].offset % OutputChunkTargetLength = 0
        /\ resOut[k].offset + OutputChunkTargetLength <= Length(alignementBuffer)
        /\ Len(resOut[k].chunk) = OutputChunkTargetLength

\* an output of a length that is no multiple of the frame length occurred, a
\* frame was emitted from the last slot of the buffer and the next one from
\* offset 0
C16_Witness ==
    /\ \E j \in 1..Len(resLens) : resLens[j] % OutputChunkTargetLength # 0
    /\ \E k \in 1..(Len(resOut) - 1) :
          /\ resOut[k].offset
                = Length(alignementBuffer) - OutputChunkTargetLength
          /\ resOut[k + 1].offset = 0

\* C17: as long as bufferSize never exceeded the length of the
\* alignementBuffer, the k-th frame emitted holds the k-th
\* outputChunkTargetLength bytes of the concatenation of the resampler outputs.
C17_RealignsWithoutLoss ==
    ~resOver => \A k \in 1..Len(resOut) : resOut[k].chunk = ResFrame(k)

\* an output was written in two passes across the end of the buffer, and the
\* frame that holds its bytes of both passes was emitted
C17_Witness ==
    /\ ~resOver
    /\ \E j \in 1..Len(resLens) :
          LET before == SumTo(resLens, j - 1)
              len    == Length(alignementBuffer)
              offset == before % len
          IN  /\ offset + resLens[j] > len
              /\ (len - offset) % OutputChunkTargetLength # 0
              /\ Len(resOut) * OutputChunkTargetLength
                    >= before + (len - offset) + 1

\* the chunks dropped before the resampler was initialized
ResDropped == Len(resLens) - Len(resAccepted)

\* after every accepted chunk so far, the resampler had produced no more than
\* outputChunkTargetLength bytes per accepted chunk
ResOutputWithinInput ==
    \A j \in (ResDropped + 1)..Len(resLens) :
        SumTo(resLens, j) <= OutputChunkTargetLength * (j - ResDropped)

\* C20 as claimed: under ResOutputWithinInput, bufferSize is less than
\* outputChunkTargetLength after every write and never exceeded the length of
\* the alignementBuffer.
C20_BufferedBelowFrame ==
    ResOutputWithinInput =>
        /\ bufferSize < OutputChunkTargetLength
        /\ ~resOver

\* C20 as amended: under ResOutputWithinInput, bufferSize is less than
\* outputChunkTargetLength after every write; within a write it stays below
\* outputChunkTargetLength plus the length of the resampledBuffer, and so
\* within every alignementBuffer of at least that length.
C20_BufferedBelowFrameInBigBuffer ==
    ResOutputWithinInput =>
        /\ bufferSize < OutputChunkTargetLength
        /\ Length(alignementBuffer)
              >= OutputChunkTargetLength + ResampledBufferLength => ~resOver

\* outputs of 1, 0, 0 and ResampledBufferLength bytes: the last write finds 1
\* byte buffered and three indices waiting, fills a buffer of
\* outputChunkTargetLength + ResampledBufferLength bytes up to its last byte
\* but one and emits three frames
C20_Witness ==
    /\ ResOutputWithinInput
    /\ Length(alignementBuffer) = OutputChunkTargetLength + ResampledBufferLength
    /\ resLens = <<1, 0, 0, ResampledBufferLength>>
    /\ Len(resAccepted) = 4
    /\ Len(resOut) = 3
    /\ bufferSize = 1
    /\ ~resOver

=============================================================================
